---- MODULE Spec2Model ----
(***************************************************************************)
(* Model of src/main.py: the calibration loop of main() and the challenge  *)
(* function play_game().                                                   *)
(*                                                                         *)
(* Python values that the code subtracts or indexes are kept with their    *)
(* type: an int, None, or a 2-tuple (cv2.KeyPoint.pt).  Subtracting        *)
(* anything but two ints raises TypeError, as in Python.                   *)
(***************************************************************************)
EXTENDS Integers, Sequences, FiniteSets, TLC

VARIABLES
    pc,                   \* position of the process in main()
    error,                \* name of the uncaught exception, "none" if none
    stdout,               \* what the process printed before it ended
    camera_ok,            \* whether cv2.VideoCapture(0) opened the camera
    W, H,                 \* display size
    initial_radius,
    radius,
    step,
    capture_position,     \* <<left gate, right gate>>
    eyes_position,        \* dict: key -> list of captured positions
    current_eye_position, \* <<left, right>>, each a tuple value or None
    thresholds,           \* dict top/bottom/right/left -> int
    cross,                \* centre of the cross drawn by the last render, <<>> if none
    img,                  \* shape of the image given to cut_eyebrows / detect_eyes
    eyes,                 \* rectangles <<x, y, w, h>> the eye classifier returns
    res,                  \* shape of the image cut_eyebrows returns
    left_eye, right_eye,  \* rectangles detect_eyes crops, <<>> for None
    call_position,        \* argument `position` of a call of play_game on its own
    call_center           \* argument `center_position` of such a call

\* the variables of the image functions, which the loop model leaves alone
vision == <<img, eyes, res, left_eye, right_eye>>

\* the arguments of play_game called on its own, which main() never binds
\* outside the call of line 376
args == <<call_position, call_center>>

vars == <<pc, error, stdout, camera_ok, W, H, initial_radius, radius, step,
          capture_position, eyes_position, current_eye_position, thresholds, cross,
          img, eyes, res, left_eye, right_eye, call_position, call_center>>

-----------------------------------------------------------------------------
(* Python values *)

IntV(n) == [t |-> "int", v |-> <<n>>]
NoneV == [t |-> "None", v |-> <<>>]
TupleV(x, y) == [t |-> "tuple", v |-> <<x, y>>]

\* no call of play_game made yet
NoArgs == <<NoneV, NoneV>>

\* a - b in Python: defined on two ints, TypeError on None or on tuples
PySub(a, b) ==
    IF a.t = "int" /\ b.t = "int"
    THEN [err |-> "none", val |-> a.v[1] - b.v[1]]
    ELSE [err |-> "TypeError", val |-> 0]

Max(a, b) == IF a >= b THEN a ELSE b

\* dict helpers: a dict is a function whose DOMAIN is its key set
EmptyDict == [k \in {} |-> <<>>]
DictGet(d, k, default) == IF k \in DOMAIN d THEN d[k] ELSE default
DictSet(d, k, val) == [x \in (DOMAIN d) \cup {k} |-> IF x = k THEN val ELSE d[x]]

-----------------------------------------------------------------------------
(* Inputs *)

\* pupil positions the blob detector can report (KeyPoint.pt, a 2-tuple)
Points == {TupleV(1, 2), TupleV(3, 1)}

\* what one eye yields in a frame: whether detect_eyes found its region,
\* and the keypoints blob_process returns for it (none or one)
EyeInputs ==
    {[region |-> FALSE, keypoints |-> <<>>], [region |-> TRUE, keypoints |-> <<>>]}
    \cup {[region |-> TRUE, keypoints |-> <<p>>] : p \in Points}

ScreenSizes == {<<16, 8>>, <<8, 16>>}

\* images of the image functions: heights up to MaxHeight, two widths, and
\* up to MaxEyes candidate rectangles lying in the image
MaxHeight == 5
MaxEyes == 2
Widths == {2, 5}
Shapes == [height : 1 .. MaxHeight, width : Widths]
NoShape == [height |-> 0, width |-> 0]
Candidates(shape) ==
    {<<x, y, 2, 2>> : x \in 0 .. shape.width - 1, y \in 0 .. shape.height - 1}
RECURSIVE SeqsUpTo(_, _)
SeqsUpTo(S, n) ==
    IF n = 0 THEN {<<>>}
    ELSE LET shorter == SeqsUpTo(S, n - 1)
         IN  shorter \cup {Append(q, x) : q \in shorter, x \in S}

\* inputs of the challenge: initial radii up to MaxRadius and the radius 100,
\* thresholds, centres and gaze positions around the thresholds
MaxRadius == 7
Radii == (0 .. MaxRadius) \cup {100}
ThresholdSets ==
    [top : {-10, 0}, bottom : {10, 0}, right : {8, 0, -1}, left : {-8, 0}]
Centers == {<<IntV(0), IntV(0)>>, <<IntV(1), IntV(-1)>>}
GazeX == {IntV(n) : n \in {-9, -8, 0, 7, 8, 9}} \cup {NoneV, TupleV(1, 2)}
GazeY == {IntV(n) : n \in {-11, -10, 0, 9, 10, 11}} \cup {NoneV, TupleV(3, 1)}
GamePositions == {<<x, y>> : x \in GazeX, y \in GazeY}

-----------------------------------------------------------------------------
(* main(): constants of the loop *)

keys == <<"middle", "top", "right", "bottom", "left">>

\* variant of KeyAt without the offset of one between step and direction
KeyAt_NoOffset(i) == keys[((i + 1) % 5) + 1]

\* keys[i] with Python indexing (0-based, negative indices wrap)
KeyAt(i) == keys[(i % 5) + 1]

ThresholdKeys == <<"top", "bottom", "right", "left">>

ZeroThresholds == [top |-> 0, bottom |-> 0, right |-> 0, left |-> 0]

setup_crosses(s, w, h) ==
    CASE s = 0 -> <<w \div 2, h \div 2>>
      [] s = 1 -> <<w \div 2, h \div 8>>
      [] s = 2 -> <<(7 * w) \div 8, h \div 2>>
      [] s = 3 -> <<w \div 2, (7 * h) \div 8>>
      [] s = 4 -> <<w \div 8, h \div 2>>
      [] OTHER -> <<>>

-----------------------------------------------------------------------------
(* play_game *)

\* variant of play_game in which a value equal to the right threshold is
\* out of bounds
play_game_ExclusiveBound(ir, r, th, position, center_position) ==
    LET dx == PySub(position[1], center_position[1])
        dy == PySub(position[2], center_position[2])
    IN  IF dx.err # "none" THEN [kind |-> "error", err |-> dx.err, value |-> r]
        ELSE IF dy.err # "none" THEN [kind |-> "error", err |-> dy.err, value |-> r]
        ELSE IF th.top > dy.val \/ th.bottom < dy.val
                \/ th.right <= dx.val \/ th.left > dx.val
             THEN [kind |-> "return", err |-> "none", value |-> ir]
        ELSE IF r < 5
             THEN [kind |-> "exit", err |-> "none", value |-> r]
             ELSE [kind |-> "return", err |-> "none", value |-> r - 5]

\* variant of play_game that wins as soon as the radius is at the floor
play_game_WinAtFloor(ir, r, th, position, center_position) ==
    LET dx == PySub(position[1], center_position[1])
        dy == PySub(position[2], center_position[2])
    IN  IF dx.err # "none" THEN [kind |-> "error", err |-> dx.err, value |-> r]
        ELSE IF dy.err # "none" THEN [kind |-> "error", err |-> dy.err, value |-> r]
        ELSE IF th.top > dy.val \/ th.bottom < dy.val
                \/ th.right < dx.val \/ th.left > dx.val
             THEN [kind |-> "return", err |-> "none", value |-> ir]
        ELSE IF r <= 5
             THEN [kind |-> "exit", err |-> "none", value |-> r]
             ELSE [kind |-> "return", err |-> "none", value |-> r - 5]

\* variant of play_game without the win test
play_game_NoWin(ir, r, th, position, center_position) ==
    LET dx == PySub(position[1], center_position[1])
        dy == PySub(position[2], center_position[2])
    IN  IF dx.err # "none" THEN [kind |-> "error", err |-> dx.err, value |-> r]
        ELSE IF dy.err # "none" THEN [kind |-> "error", err |-> dy.err, value |-> r]
        ELSE IF th.top > dy.val \/ th.bottom < dy.val
                \/ th.right < dx.val \/ th.left > dx.val
             THEN [kind |-> "return", err |-> "none", value |-> ir]
        ELSE [kind |-> "return", err |-> "none", value |-> r - 5]

play_game(ir, r, th, position, center_position) ==
    LET dx == PySub(position[1], center_position[1])
        dy == PySub(position[2], center_position[2])
    IN  IF dx.err # "none" THEN [kind |-> "error", err |-> dx.err, value |-> r]
        ELSE IF dy.err # "none" THEN [kind |-> "error", err |-> dy.err, value |-> r]
        ELSE IF th.top > dy.val \/ th.bottom < dy.val
                \/ th.right < dx.val \/ th.left > dx.val
             THEN [kind |-> "return", err |-> "none", value |-> ir]
        ELSE IF r < 5
             THEN [kind |-> "exit", err |-> "none", value |-> r]
             ELSE [kind |-> "return", err |-> "none", value |-> r - 5]

\* line 376: the arguments are evaluated first, eyes_position["center"]
\* raises KeyError when the key is missing
GameCall(ir, r, th, position, ep) ==
    IF "center" \notin DOMAIN ep
    THEN [kind |-> "error", err |-> "KeyError", value |-> r]
    ELSE play_game(ir, r, th, position, ep["center"])

-----------------------------------------------------------------------------
(* threshold derivation, lines 357-365 *)

\* variant of DeriveOne that reads a missing key as no displacement
DeriveOne_DefaultZero(ep, key) ==
    LET idx == IF key \in {"bottom", "top"} THEN 1 ELSE 0
    IN  IF key \notin DOMAIN ep \/ "middle" \notin DOMAIN ep
        THEN [err |-> "none", val |-> 0]
        ELSE IF Len(ep[key]) < idx + 1 THEN [err |-> "IndexError", val |-> 0]
        ELSE IF Len(ep["middle"]) < idx + 1 THEN [err |-> "IndexError", val |-> 0]
        ELSE PySub(ep[key][idx + 1], ep["middle"][idx + 1])

\* the value assigned to thresholds[key], or the exception raised
DeriveOne(ep, key) ==
    LET idx == IF key \in {"bottom", "top"} THEN 1 ELSE 0
    IN  IF key \notin DOMAIN ep THEN [err |-> "KeyError", val |-> 0]
        ELSE IF Len(ep[key]) < idx + 1 THEN [err |-> "IndexError", val |-> 0]
        ELSE IF "middle" \notin DOMAIN ep THEN [err |-> "KeyError", val |-> 0]
        ELSE IF Len(ep["middle"]) < idx + 1 THEN [err |-> "IndexError", val |-> 0]
        ELSE PySub(ep[key][idx + 1], ep["middle"][idx + 1])

\* the loop over the keys of thresholds, from the i-th key on
RECURSIVE DeriveFrom(_, _, _)
DeriveFrom(ep, th, i) ==
    IF i > Len(ThresholdKeys) THEN [err |-> "none", th |-> th]
    ELSE LET one == DeriveOne(ep, ThresholdKeys[i])
         IN  IF one.err # "none" THEN [err |-> one.err, th |-> th]
             ELSE DeriveFrom(ep, [th EXCEPT ![ThresholdKeys[i]] = one.val], i + 1)

DeriveThresholds(ep, th) == DeriveFrom(ep, th, 1)

-----------------------------------------------------------------------------
(* detect_eyes and cut_eyebrows, on image shapes and rectangles *)

\* the loop of lines 59-67 from the i-th candidate on; the test of line 60
\* ends in `pass`, so every candidate goes on to lines 63-67
RECURSIVE detect_eyes_from(_, _, _, _)
detect_eyes_from(shape, cands, i, found) ==
    IF i > Len(cands) THEN found
    ELSE LET x == cands[i][1]
             w == cands[i][3]
         IN  \* eyecenter = x + w / 2 < width * 0.5, doubled to stay in integers
             IF 2 * x + w < shape.width
             THEN detect_eyes_from(shape, cands, i + 1, [found EXCEPT !.left = cands[i]])
             ELSE detect_eyes_from(shape, cands, i + 1, [found EXCEPT !.right = cands[i]])

detect_eyes(shape, cands) ==
    detect_eyes_from(shape, cands, 1, [left |-> <<>>, right |-> <<>>])

\* variant of cut_eyebrows that keeps 3 * height // 4 rows
cut_eyebrows_ThreeQuarters(shape) ==
    [height |-> (3 * shape.height) \div 4, width |-> shape.width]

\* int(height / 4) rows are cut from the top, the width is kept
cut_eyebrows(shape) ==
    LET eyebrow_h == shape.height \div 4
    IN  [height |-> shape.height - eyebrow_h, width |-> shape.width]

-----------------------------------------------------------------------------
(* main() *)

Init ==
    /\ img = NoShape /\ eyes = <<>> /\ res = NoShape
    /\ left_eye = <<>> /\ right_eye = <<>>
    /\ call_position = NoArgs /\ call_center = NoArgs
    /\ pc = "start"
    /\ error = "none"
    /\ stdout = "none"
    /\ camera_ok \in BOOLEAN
    /\ \E s \in ScreenSizes : W = s[1] /\ H = s[2]
    /\ initial_radius = Max(W, H)
    /\ radius = initial_radius
    /\ step = 0
    /\ capture_position = <<FALSE, FALSE>>
    /\ eyes_position = EmptyDict
    /\ current_eye_position = <<NoneV, NoneV>>
    /\ thresholds = ZeroThresholds
    /\ cross = <<>>

\* an uncaught exception ends the process
Raise(e) == pc' = "crashed" /\ error' = e

\* lines 260-281: pygame.display.set_mode raises when no display is available
Startup ==
    /\ pc = "start"
    /\ UNCHANGED <<vision, args>>
    /\ \E display_ok \in BOOLEAN :
          IF display_ok THEN pc' = "tick" /\ error' = error
          ELSE Raise("pygame.error")
    /\ UNCHANGED <<stdout, camera_ok, W, H, initial_radius, radius, step,
                   capture_position, eyes_position, current_eye_position,
                   thresholds, cross>>

\* lines 298-299: this tick's cap.read() returns (False, None) and
\* cvtColor(None) raises.  An unopened capture fails every read; an opened
\* one may fail any read, the first or one after frames were delivered.
TickNoFrame ==
    /\ pc = "tick"
    /\ UNCHANGED <<vision, args>>
    /\ Raise("cv2.error")
    /\ UNCHANGED <<stdout, camera_ok, W, H, initial_radius, radius, step,
                   capture_position, eyes_position, current_eye_position,
                   thresholds, cross>>

\* lines 299-301: no face in the frame, both eye branches are skipped
TickNoFace ==
    /\ pc = "tick" /\ camera_ok
    /\ UNCHANGED <<vision, args>>
    /\ pc' = "events"
    /\ UNCHANGED <<error, stdout, camera_ok, W, H, initial_radius, radius, step,
                   capture_position, eyes_position, current_eye_position,
                   thresholds, cross>>

\* variant of ObserveEye that appends whether or not the gate is armed
ObserveEye_IgnoreGate(e, inp, next_pc) ==
    IF ~inp.region
    THEN /\ current_eye_position' = [current_eye_position EXCEPT ![e] = NoneV]
         /\ pc' = next_pc
         /\ UNCHANGED <<error, capture_position, eyes_position>>
    ELSE IF Len(inp.keypoints) = 0
    THEN /\ Raise("IndexError")
         /\ UNCHANGED <<capture_position, eyes_position, current_eye_position>>
    ELSE /\ current_eye_position' = [current_eye_position EXCEPT ![e] = inp.keypoints[1]]
         /\ pc' = next_pc
         /\ error' = error
         /\ LET keyname == KeyAt(step - 1)
                pos == DictGet(eyes_position, keyname, <<>>)
            IN  /\ eyes_position' = DictSet(eyes_position, keyname, Append(pos, inp.keypoints[1]))
                /\ capture_position' = [capture_position EXCEPT ![e] = FALSE]

\* variant of ObserveEye that, armed and without an eye region, stores the
\* position left from an earlier frame
ObserveEye_StaleSample(e, inp, next_pc) ==
    IF ~inp.region
    THEN /\ current_eye_position' = [current_eye_position EXCEPT ![e] = NoneV]
         /\ pc' = next_pc
         /\ error' = error
         /\ IF capture_position[e]
            THEN LET keyname == KeyAt(step - 1)
                     pos == DictGet(eyes_position, keyname, <<>>)
                 IN  /\ eyes_position' = DictSet(eyes_position, keyname,
                                                 Append(pos, current_eye_position[e]))
                     /\ capture_position' = [capture_position EXCEPT ![e] = FALSE]
            ELSE UNCHANGED <<capture_position, eyes_position>>
    ELSE IF Len(inp.keypoints) = 0
    THEN /\ Raise("IndexError")
         /\ UNCHANGED <<capture_position, eyes_position, current_eye_position>>
    ELSE /\ current_eye_position' = [current_eye_position EXCEPT ![e] = inp.keypoints[1]]
         /\ pc' = next_pc
         /\ error' = error
         /\ IF capture_position[e]
            THEN LET keyname == KeyAt(step - 1)
                     pos == DictGet(eyes_position, keyname, <<>>)
                 IN  /\ eyes_position' = DictSet(eyes_position, keyname,
                                                 Append(pos, inp.keypoints[1]))
                     /\ capture_position' = [capture_position EXCEPT ![e] = FALSE]
            ELSE UNCHANGED <<capture_position, eyes_position>>

\* lines 305-320 (e = 1) and 322-337 (e = 2): one eye of a frame with a face
ObserveEye(e, inp, next_pc) ==
    IF ~inp.region
    THEN /\ current_eye_position' = [current_eye_position EXCEPT ![e] = NoneV]
         /\ pc' = next_pc
         /\ UNCHANGED <<error, capture_position, eyes_position>>
    ELSE IF Len(inp.keypoints) = 0
    THEN /\ Raise("IndexError")
         /\ UNCHANGED <<capture_position, eyes_position, current_eye_position>>
    ELSE /\ current_eye_position' = [current_eye_position EXCEPT ![e] = inp.keypoints[1]]
         /\ pc' = next_pc
         /\ error' = error
         /\ IF capture_position[e]
            THEN LET keyname == KeyAt(step - 1)
                     pos == DictGet(eyes_position, keyname, <<>>)
                 IN  /\ eyes_position' = DictSet(eyes_position, keyname, Append(pos, inp.keypoints[1]))
                     /\ capture_position' = [capture_position EXCEPT ![e] = FALSE]
            ELSE UNCHANGED <<capture_position, eyes_position>>

TickLeft ==
    /\ pc = "tick" /\ camera_ok
    /\ UNCHANGED <<vision, args>>
    /\ \E inp \in EyeInputs : ObserveEye(1, inp, "right")
    /\ UNCHANGED <<stdout, camera_ok, W, H, initial_radius, radius, step,
                   thresholds, cross>>

TickRight ==
    /\ pc = "right"
    /\ UNCHANGED <<vision, args>>
    /\ \E inp \in EyeInputs : ObserveEye(2, inp, "events")
    /\ UNCHANGED <<stdout, camera_ok, W, H, initial_radius, radius, step,
                   thresholds, cross>>

\* lines 345-348: window closed
EventQuit ==
    /\ pc = "events"
    /\ UNCHANGED <<vision, args>>
    /\ pc' = "exited"
    /\ UNCHANGED <<error, stdout, camera_ok, W, H, initial_radius, radius, step,
                   capture_position, eyes_position, current_eye_position,
                   thresholds, cross>>

\* lines 350-354: Escape or 'q' key
EventEscape ==
    /\ pc = "events"
    /\ UNCHANGED <<vision, args>>
    /\ stdout' = "eyes_position"
    /\ pc' = "exited"
    /\ UNCHANGED <<error, camera_ok, W, H, initial_radius, radius, step,
                   capture_position, eyes_position, current_eye_position,
                   thresholds, cross>>

\* variant of EventSpace that moves the step counter by two
EventSpace_SkipsStep ==
    /\ pc = "events"
    /\ UNCHANGED <<vision, args>>
    /\ IF step < 5
       THEN LET d == IF step = 4 THEN DeriveThresholds(eyes_position, thresholds)
                     ELSE [err |-> "none", th |-> thresholds]
            IN  /\ thresholds' = d.th
                /\ IF d.err # "none"
                   THEN Raise(d.err) /\ UNCHANGED <<step, capture_position>>
                   ELSE /\ step' = step + 2
                        /\ capture_position' = <<TRUE, TRUE>>
                        /\ UNCHANGED <<pc, error>>
       ELSE UNCHANGED <<pc, error, step, capture_position, thresholds>>
    /\ UNCHANGED <<stdout, camera_ok, W, H, initial_radius, radius,
                   eyes_position, current_eye_position, cross>>

\* variant of EventSpace that arms the gates again without moving on to
\* the next direction once step is 1
EventSpace_Rearm ==
    /\ pc = "events"
    /\ UNCHANGED <<vision, args>>
    /\ IF step < 5
       THEN LET d == IF step = 4 THEN DeriveThresholds(eyes_position, thresholds)
                     ELSE [err |-> "none", th |-> thresholds]
            IN  /\ thresholds' = d.th
                /\ IF d.err # "none"
                   THEN Raise(d.err) /\ UNCHANGED <<step, capture_position>>
                   ELSE /\ step' = IF step = 0 THEN 1 ELSE step
                        /\ capture_position' = <<TRUE, TRUE>>
                        /\ UNCHANGED <<pc, error>>
       ELSE UNCHANGED <<pc, error, step, capture_position, thresholds>>
    /\ UNCHANGED <<stdout, camera_ok, W, H, initial_radius, radius,
                   eyes_position, current_eye_position, cross>>

\* lines 355-368: space key
EventSpace ==
    /\ pc = "events"
    /\ UNCHANGED <<vision, args>>
    /\ IF step < 5
       THEN LET d == IF step = 4 THEN DeriveThresholds(eyes_position, thresholds)
                     ELSE [err |-> "none", th |-> thresholds]
            IN  /\ thresholds' = d.th
                /\ IF d.err # "none"
                   THEN Raise(d.err) /\ UNCHANGED <<step, capture_position>>
                   ELSE /\ step' = step + 1
                        /\ capture_position' = <<TRUE, TRUE>>
                        /\ UNCHANGED <<pc, error>>
       ELSE UNCHANGED <<pc, error, step, capture_position, thresholds>>
    /\ UNCHANGED <<stdout, camera_ok, W, H, initial_radius, radius,
                   eyes_position, current_eye_position, cross>>

\* end of the event list of this tick
EventsDone ==
    /\ pc = "events"
    /\ UNCHANGED <<vision, args>>
    /\ pc' = "render"
    /\ UNCHANGED <<error, stdout, camera_ok, W, H, initial_radius, radius, step,
                   capture_position, eyes_position, current_eye_position,
                   thresholds, cross>>

\* lines 370-379: crosses, then the challenge once step is 5
Render ==
    /\ pc = "render"
    /\ UNCHANGED <<vision, args>>
    /\ cross' = IF ~(capture_position[1] \/ capture_position[2]) /\ 0 <= step /\ step <= 4
                THEN setup_crosses(step, W, H) ELSE <<>>
    /\ IF step = 5
       THEN LET g == GameCall(initial_radius, radius, thresholds,
                              current_eye_position, eyes_position)
            IN  CASE g.kind = "return" ->
                       radius' = g.value /\ pc' = "waitkey" /\ UNCHANGED <<error, stdout>>
                  [] g.kind = "exit" ->
                       stdout' = "won" /\ pc' = "exited" /\ UNCHANGED <<error, radius>>
                  [] OTHER -> Raise(g.err) /\ UNCHANGED <<radius, stdout>>
       ELSE pc' = "waitkey" /\ UNCHANGED <<error, stdout, radius>>
    /\ UNCHANGED <<camera_ok, W, H, initial_radius, step, capture_position,
                   eyes_position, current_eye_position, thresholds>>

\* lines 381-384: 'q' in the video window leaves the loop
WaitKey ==
    /\ pc = "waitkey"
    /\ UNCHANGED <<vision, args>>
    /\ \E q \in BOOLEAN : pc' = IF q THEN "exited" ELSE "tick"
    /\ UNCHANGED <<error, stdout, camera_ok, W, H, initial_radius, radius, step,
                   capture_position, eyes_position, current_eye_position,
                   thresholds, cross>>

Next ==
    \/ Startup
    \/ TickNoFrame
    \/ TickNoFace
    \/ TickLeft
    \/ TickRight
    \/ EventQuit
    \/ EventEscape
    \/ EventSpace
    \/ EventsDone
    \/ Render
    \/ WaitKey

Spec == Init /\ [][Next]_vars

-----------------------------------------------------------------------------
(* play_game on its own: a harness that calls play_game(initial_radius,    *)
(* radius, thresholds, position, center_position) on arguments drawn from  *)
(* bounded sets and passes each returned radius to the next call.  The     *)
(* state of the harness is the arguments of the call, not a state of       *)
(* main(): main() never reaches its call of play_game (the derivation at   *)
(* step 4 raises), so its own variables keep their values of Init here.    *)

GameInit ==
    /\ img = NoShape /\ eyes = <<>> /\ res = NoShape
    /\ left_eye = <<>> /\ right_eye = <<>>
    /\ pc = "play"
    /\ error = "none"
    /\ stdout = "none"
    /\ camera_ok = TRUE
    /\ \E r \in Radii : W = r /\ H = r
    /\ initial_radius = Max(W, H)
    /\ radius = initial_radius
    /\ step = 0
    /\ capture_position = <<FALSE, FALSE>>
    /\ eyes_position = EmptyDict
    /\ current_eye_position = <<NoneV, NoneV>>
    /\ thresholds \in ThresholdSets
    /\ cross = <<>>
    /\ call_position = NoArgs
    /\ call_center \in Centers

\* variant of GamePlay in which the win is printed and the calls go on
GamePlay_WinContinues ==
    /\ pc = "play"
    /\ UNCHANGED vision
    /\ \E p \in GamePositions :
          /\ call_position' = p
          /\ LET g == play_game(initial_radius, radius, thresholds, p, call_center)
             IN  CASE g.kind = "return" ->
                        radius' = g.value /\ UNCHANGED <<pc, error, stdout>>
                   [] g.kind = "exit" ->
                        stdout' = "won" /\ UNCHANGED <<pc, error, radius>>
                   [] OTHER -> Raise(g.err) /\ UNCHANGED <<radius, stdout>>
    /\ UNCHANGED <<camera_ok, W, H, initial_radius, step, capture_position,
                   eyes_position, current_eye_position, thresholds, cross,
                   call_center>>

\* one call of play_game: a returned radius is the radius of the next
\* call, exit(0) ends the process, an exception ends it too
GamePlay ==
    /\ pc = "play"
    /\ UNCHANGED vision
    /\ \E p \in GamePositions :
          /\ call_position' = p
          /\ LET g == play_game(initial_radius, radius, thresholds, p, call_center)
             IN  CASE g.kind = "return" ->
                        radius' = g.value /\ UNCHANGED <<pc, error, stdout>>
                   [] g.kind = "exit" ->
                        stdout' = "won" /\ pc' = "exited" /\ UNCHANGED <<error, radius>>
                   [] OTHER -> Raise(g.err) /\ UNCHANGED <<radius, stdout>>
    /\ UNCHANGED <<camera_ok, W, H, initial_radius, step, capture_position,
                   eyes_position, current_eye_position, thresholds, cross,
                   call_center>>

GameNext == GamePlay

GameSpec == GameInit /\ [][GameNext]_vars

-----------------------------------------------------------------------------
(* cut_eyebrows and detect_eyes on their own, applied to images and        *)
(* candidate lists drawn from bounded sets                                 *)

loop == <<error, stdout, camera_ok, W, H, initial_radius, radius, step,
          capture_position, eyes_position, current_eye_position, thresholds, cross,
          call_position, call_center>>

VisionInit ==
    /\ pc = "vision"
    /\ error = "none"
    /\ stdout = "none"
    /\ camera_ok = TRUE
    /\ \E s \in ScreenSizes : W = s[1] /\ H = s[2]
    /\ initial_radius = Max(W, H)
    /\ radius = initial_radius
    /\ step = 0
    /\ capture_position = <<FALSE, FALSE>>
    /\ eyes_position = EmptyDict
    /\ current_eye_position = <<NoneV, NoneV>>
    /\ thresholds = ZeroThresholds
    /\ cross = <<>>
    /\ call_position = NoArgs /\ call_center = NoArgs
    /\ img \in Shapes
    /\ eyes \in SeqsUpTo(Candidates(img), MaxEyes)
    /\ res = NoShape
    /\ left_eye = <<>> /\ right_eye = <<>>

ApplyCutEyebrows ==
    /\ pc = "vision"
    /\ res' = cut_eyebrows(img)
    /\ pc' = "cut_done"
    /\ UNCHANGED <<loop, img, eyes, left_eye, right_eye>>

ApplyDetectEyes ==
    /\ pc = "vision"
    /\ LET found == detect_eyes(img, eyes)
       IN  left_eye' = found.left /\ right_eye' = found.right
    /\ pc' = "detect_done"
    /\ UNCHANGED <<loop, img, eyes, res>>

VisionNext == ApplyCutEyebrows \/ ApplyDetectEyes

VisionSpec == VisionInit /\ [][VisionNext]_vars

-----------------------------------------------------------------------------
(* Vocabulary of the properties *)

Directions == {keys[i] : i \in 1 .. 5}

HasSample(k) == k \in DOMAIN eyes_position /\ Len(eyes_position[k]) >= 1

\* the advance event taken while step = 4: derivation runs, and either
\* completes (step becomes 5) or raises
DerivationStep == pc = "events" /\ step = 4 /\ (step' = 5 \/ pc' = "crashed")

\* an advance event that took effect
AdvanceStep == pc = "events" /\ step' = step + 1

\* the eye branch of a frame with a face that ran to its end
LeftStep == pc = "tick" /\ pc' = "right"
RightStep == pc = "right" /\ pc' = "events"
NoFaceStep == pc = "tick" /\ pc' = "events"

\* coordinate of an EyeSample along an axis (1 = x, 2 = y)
Coord(sample, axis) == sample.v[axis]

\* the threshold the specification defines for a direction: its first
\* sample minus Middle's first sample along the direction's axis
ExpectedThreshold(k) ==
    LET axis == IF k \in {"top", "bottom"} THEN 2 ELSE 1
    IN  Coord(eyes_position[k][1], axis) - Coord(eyes_position["middle"][1], axis)

\* eyes_position with one sample appended to the list of key k
Appended(k, sample) ==
    DictSet(eyes_position, k, Append(DictGet(eyes_position, k, <<>>), sample))

Armed == (IF capture_position[1] THEN 1 ELSE 0) + (IF capture_position[2] THEN 1 ELSE 0)

\* the direction a cross stands for, read from where it lies on the screen
CrossDirection(c, w, h) ==
    IF c = <<>> THEN "none"
    ELSE IF c[2] * 2 < h - 1 THEN "top"
    ELSE IF c[2] * 2 > h + 1 THEN "bottom"
    ELSE IF c[1] * 2 < w - 1 THEN "left"
    ELSE IF c[1] * 2 > w + 1 THEN "right"
    ELSE "middle"

\* a gaze position with both coordinates, and one lacking a coordinate
Present(position) == position[1].t = "int" /\ position[2].t = "int"
Absent(position) == position[1] = NoneV \/ position[2] = NoneV

\* the in-bounds predicate of the specification
InBounds(th, position, center) ==
    LET dx == position[1].v[1] - center[1].v[1]
        dy == position[2].v[1] - center[2].v[1]
    IN  th.top <= dy /\ dy <= th.bottom /\ th.left <= dx /\ dx <= th.right

Center == call_center

ScenarioThresholds == [top |-> -10, bottom |-> 10, right |-> 8, left |-> -8]

\* a challenge step taken with a present gaze sample
PresentStep == pc = "play" /\ Present(call_position')

-----------------------------------------------------------------------------
(* Claims *)

\* C1: when thresholds are derived (the advance taken while step = 4), each
\* of the five directions already has at least one captured sample.
C1_AllDirectionsSampledAtDerivation ==
    [][DerivationStep => \A k \in Directions : HasSample(k)]_vars

\* C2: derivation completes and sets each threshold to the relevant-axis
\* coordinate of the direction's first sample minus that of Middle's first
\* sample (stated for a calibration in which both eyes were captured for
\* every direction captured before derivation).
C2_ThresholdsFromFirstSamples ==
    [][(DerivationStep
          /\ \A k \in {"middle", "top", "right", "bottom"} :
                HasSample(k) /\ Len(eyes_position[k]) = 2)
         => /\ pc' # "crashed"
            /\ \A k \in {"top", "bottom", "right"} :
                  thresholds'[k] = ExpectedThreshold(k)]_vars

\* C4: an eye whose gate is false appends nothing, whatever is detected; an
\* append clears the gate of the appending eye and only that one; only an
\* advance arms a gate; so since the last advance each eye has either
\* appended once or is still armed.
C4_GateIsOneShotPerEye ==
    /\ [](step >= 1 => Len(DictGet(eyes_position, KeyAt(step - 1), <<>>)) + Armed = 2)
    /\ [][/\ (pc = "tick" /\ ~capture_position[1]) => eyes_position' = eyes_position
          /\ (pc = "right" /\ ~capture_position[2]) => eyes_position' = eyes_position
          /\ (LeftStep /\ eyes_position' # eyes_position)
                => capture_position' = <<FALSE, capture_position[2]>>
          /\ (RightStep /\ eyes_position' # eyes_position)
                => capture_position' = <<capture_position[1], FALSE>>
          /\ (\E e \in 1 .. 2 : ~capture_position[e] /\ capture_position'[e])
                => AdvanceStep]_vars

C4_Witness ==
    /\ pc = "right" /\ step = 1
    /\ capture_position = <<FALSE, TRUE>>
    /\ HasSample("middle") /\ Len(eyes_position["middle"]) = 1

\* C5: an armed eye whose sample is absent in a tick (no face, or no eye
\* region) keeps its gate and appends nothing; every stored value is the
\* sample detected in that tick for an eye whose gate was armed.
C5_NoFabricatedSample ==
    [][/\ (LeftStep /\ current_eye_position'[1] = NoneV)
             => (capture_position' = capture_position /\ eyes_position' = eyes_position)
       /\ (RightStep /\ current_eye_position'[2] = NoneV)
             => (capture_position' = capture_position /\ eyes_position' = eyes_position)
       /\ NoFaceStep
             => (capture_position' = capture_position /\ eyes_position' = eyes_position)
       /\ (eyes_position' # eyes_position)
             => \E e \in 1 .. 2 :
                   /\ IF e = 1 THEN LeftStep ELSE RightStep
                   /\ capture_position[e]
                   /\ current_eye_position'[e] \in Points
                   /\ \E k \in Directions :
                         eyes_position' = Appended(k, current_eye_position'[e])]_vars

C5_Witness ==
    /\ pc = "right" /\ step >= 1
    /\ capture_position[1] /\ current_eye_position[1] = NoneV

C7_ResetIffOutOfBounds ==
    [][PresentStep
         => ((pc' = "play" /\ radius' = initial_radius)
               <=> ~InBounds(thresholds, call_position', Center))]_vars

C7_Witness ==
    /\ pc = "play" /\ thresholds = ScenarioThresholds
    /\ Center = <<IntV(0), IntV(0)>>
    /\ call_position = <<IntV(7), IntV(9)>>
    /\ initial_radius = 100 /\ radius = 95

\* C8 as stated: the radius never takes a value below the floor of 5, Won
\* being signalled by the step that would take it below.
C8_RadiusNeverBelowFloor ==
    initial_radius >= 5 => radius >= 5

\* C8 amended: an in-bounds step signals Won exactly when the radius is
\* already below 5 and leaves it unchanged, otherwise it decrements by 5;
\* from 100 the radius runs 95, ..., 5, 0 and Won is signalled at radius 0;
\* the radius is never below 0.
C8_WonWhenAlreadyBelowFloor ==
    /\ [](radius >= 0)
    /\ []((initial_radius = 100 /\ stdout = "won") => radius = 0)
    /\ [][(PresentStep /\ InBounds(thresholds, call_position', Center))
            => IF radius < 5
               THEN stdout' = "won" /\ pc' = "exited" /\ radius' = radius
               ELSE stdout' = "none" /\ pc' = "play" /\ radius' = radius - 5]_vars

C8_Witness ==
    initial_radius = 100 /\ stdout = "won" /\ pc = "exited" /\ radius = 0

\* C9: 0 <= radius <= initial_radius in every state; a step that returns
\* yields max(0, radius - 5) in bounds and initial_radius out of bounds.
C9_RadiusWithinRange ==
    /\ [](0 <= radius /\ radius <= initial_radius)
    /\ [][(PresentStep /\ pc' = "play")
            => radius' = IF InBounds(thresholds, call_position', Center)
                         THEN Max(0, radius - 5) ELSE initial_radius]_vars

C9_Witness ==
    /\ pc = "play" /\ initial_radius >= 5 /\ radius = 0
    /\ Present(call_position)

\* C10: a challenge step whose gaze sample is absent sets the radius to
\* initial_radius and the session continues.
C10_AbsentSampleResets ==
    [][(pc = "play" /\ Absent(call_position'))
         => (pc' = "play" /\ radius' = initial_radius)]_vars

-----------------------------------------------------------------------------
(* Claims, continued *)

\* C11: Won is signalled at most once and is terminal: once signalled, the
\* process has ended, no challenge step runs and nothing changes any more.
C11_WonIsTerminal ==
    /\ [](stdout = "won" => pc = "exited")
    /\ [][stdout = "won" => (radius' = radius /\ stdout' = "won" /\ pc' = pc)]_vars
    /\ [][stdout' = "won" => (stdout = "won" \/ (pc = "play" /\ radius < 5))]_vars

C11_Witness ==
    stdout = "won" /\ pc = "exited" /\ initial_radius = 7 /\ radius = 2

\* C12: a tick in which the face, an eye region or the pupil keypoint is
\* not found never ends the tick loop in an exception: the only exception
\* the detection part of a tick can raise is that of a missing frame.
C12_MissingDetectionNeverCrashes ==
    [][(pc \in {"tick", "right"} /\ pc' = "crashed") => error' = "cv2.error"]_vars

\* C13 as stated: with a direction lacking a sample, derivation completes,
\* the threshold stays 0 and the session enters the playing phase.
C13_MissingSampleDefaultsToZero ==
    [][(DerivationStep /\ \E k \in Directions : ~HasSample(k))
         => (pc' # "crashed" /\ step' = 5)]_vars

\* C13 amended: with a direction lacking a sample, derivation raises
\* (KeyError when Top, the first key read, is the one missing, or when
\* Top has two samples and Middle none), no threshold is assigned, step
\* stays 4 and the process ends without entering the playing phase.
C13_MissingSampleRaises ==
    [][(DerivationStep /\ \E k \in Directions : ~HasSample(k))
         => /\ pc' = "crashed"
            /\ error' \in {"KeyError", "IndexError", "TypeError"}
            /\ (~HasSample("top") => error' = "KeyError")
            /\ ((HasSample("top") /\ Len(eyes_position["top"]) = 2 /\ ~HasSample("middle"))
                   => error' = "KeyError")
            /\ thresholds' = thresholds /\ thresholds' = ZeroThresholds
            /\ step' = 4]_vars

C13_Witness ==
    /\ pc = "crashed" /\ error = "KeyError" /\ step = 4
    /\ ~HasSample("top") /\ HasSample("middle")

\* C14: on every quit path the process has printed the calibration data
\* when it terminates.
C14_QuitPrintsCalibration ==
    (pc = "exited" /\ stdout # "won") => stdout = "eyes_position"

\* C15: when the camera cannot be acquired the process never enters the
\* tick loop.
C15_NoTickWithoutCamera ==
    ~camera_ok => pc # "tick"

\* C18: step is in 0..5, starts at 0, changes only on an advance event and
\* then by +1, stays 5 once it is 5; thresholds are all zero until the
\* advance taken at step = 4, the only step that may assign them.
C18_StepCounter ==
    /\ [](step \in 0 .. 5)
    /\ [](pc = "start" => step = 0)
    /\ []((step < 4 \/ (step = 4 /\ pc # "crashed")) => thresholds = ZeroThresholds)
    /\ [][/\ step' # step => (pc = "events" /\ step' = step + 1)
          /\ step = 5 => step' = 5
          /\ thresholds' # thresholds => DerivationStep]_vars

C18_Witness ==
    /\ pc = "events" /\ step = 4 /\ thresholds = ZeroThresholds
    /\ HasSample("bottom")

\* C19: each direction holds at most two samples, at most one per eye: an
\* eye appends to a list that holds nothing but what the other eye has
\* appended since the last advance.
C19_AtMostOneSamplePerEye ==
    /\ [](\A k \in DOMAIN eyes_position : Len(eyes_position[k]) <= 2)
    /\ [][/\ (LeftStep /\ eyes_position' # eyes_position)
                => Len(DictGet(eyes_position, keys[step], <<>>))
                      = (IF capture_position[2] THEN 0 ELSE 1)
          /\ (RightStep /\ eyes_position' # eyes_position)
                => Len(DictGet(eyes_position, keys[step], <<>>))
                      = (IF capture_position[1] THEN 0 ELSE 1)]_vars

C19_Witness ==
    /\ step = 3 /\ HasSample("middle") /\ Len(eyes_position["middle"]) = 2
    /\ HasSample("top") /\ Len(eyes_position["top"]) = 1
    /\ HasSample("right") /\ Len(eyes_position["right"]) = 2

\* C16 as stated: the image cut_eyebrows returns has height 3 * h // 4 and
\* width w.
C16_HeightIsFloorThreeQuarters ==
    pc = "cut_done" => (res.height = (3 * img.height) \div 4 /\ res.width = img.width)

\* C16 amended: the returned height is h - h // 4, the least integer not
\* below 3 * h / 4, which is 3 * h // 4 exactly when h is a multiple of 4;
\* the width is w.
C16_HeightIsCeilThreeQuarters ==
    pc = "cut_done"
      => /\ 4 * res.height >= 3 * img.height
         /\ 4 * (res.height - 1) < 3 * img.height
         /\ (res.height = (3 * img.height) \div 4 <=> img.height % 4 = 0)
         /\ res.width = img.width

C16_Witness ==
    pc = "cut_done" /\ img.height = 5 /\ res.height = 4 /\ res.width = img.width

\* C17: a candidate whose y is greater than half the face height is never
\* returned as the left or the right eye.
C17_OnlyTopHalfCandidates ==
    pc = "detect_done"
      => /\ (left_eye # <<>> => 2 * left_eye[2] <= img.height)
         /\ (right_eye # <<>> => 2 * right_eye[2] <= img.height)

====
